---- MODULE Spec2Model ----
(***************************************************************************)
(* AquaVisionX water-usage dashboard (src/app.py).                         *)
(*                                                                         *)
(* The Streamlit script is run top to bottom once per user interaction.    *)
(* The model keeps the process-wide st.cache_data entry of generate_data,  *)
(* the script variables of the current pass and the elements the pass      *)
(* rendered.  A timestamp is an integer number of ticks; TicksPerDay ticks *)
(* make one calendar day, tick 0 of a day is midnight.  A calendar date    *)
(* (datetime.date, as returned by st.date_input) is a day number.          *)
(***************************************************************************)
EXTENDS Integers, Sequences, FiniteSets

\* ---------------------------------------------------------------- bounds
Periods == 2        \* days generated (the source generates 31)
TicksPerDay == 2    \* time-of-day resolution of datetime.today()
MaxRangeLen == 3    \* longest tuple the date widget hands to the script

\* ------------------------------------------------------- program constants
UsageLow == 50      \* np.random.randint(50, 200): inclusive low
UsageHigh == 200    \* np.random.randint(50, 200): exclusive high

\* timedelta(days=30) against periods=31: the window starts Periods-1 days back
DaysBack == Periods - 1

\* categories = ['Boys', 'Girls', 'Staff'] (already in lexicographic order)
categories == <<"Boys", "Girls", "Staff">>

\* The values randint is sampled at: both ends of [UsageLow, UsageHigh).
UsageChoices == {UsageLow, UsageHigh - 1}

\* The calendar day on which the process runs, and the days a user picks
\* from: the whole generated window and the day before it.
Today == Periods
InputDays == (Today - Periods) .. Today

\* The times of day the process is started at: midnight sharp, and the last
\* tick of the day.
StartTimes == {0, TicksPerDay - 1}

\* An unassigned script variable is None, an assigned one is Some(value).
None == <<>>
Some(v) == <<v>>

\* ------------------------------------------------------- time conversions
\* Timestamp.date() / strftime('%Y-%m-%d'): the calendar day of a timestamp.
Day(ts) == ts \div TicksPerDay

\* pd.to_datetime(date): midnight at the start of that calendar day.
to_datetime(d) == d * TicksPerDay

\* ---------------------------------------------------------- generate_data
\* pd.date_range(start, periods=n): n timestamps one day apart from start.
date_range_of(start, n) == [i \in 1 .. n |-> start + (i - 1) * TicksPerDay]

\* Mutant: the window starts one day too early (timedelta(days=Periods)).
WindowStartEarly(today) == today - (DaysBack + 1) * TicksPerDay

\* start=datetime.today() - timedelta(days=30): keeps the time of day.
WindowStart(today) == today - DaysBack * TicksPerDay

\* The body of generate_data: for date in dates: for cat in categories.
\* usage[k] is the k-th draw of np.random.randint.
GenerateBody(today, usage) ==
    LET dates == date_range_of(WindowStart(today), Periods)
        nc == Len(categories)
    IN [k \in 1 .. Periods * nc |->
          [Date |-> dates[((k - 1) \div nc) + 1],
           Category |-> categories[((k - 1) % nc) + 1],
           Usage |-> usage[k]]]

\* Mutant: no memoisation, every call runs the body again.
generate_data_uncached(cached, today, usage) == GenerateBody(today, usage)

\* @st.cache_data: the body runs on a cache miss only.
generate_data(cached, today, usage) ==
    IF cached # None THEN cached[1] ELSE GenerateBody(today, usage)

\* ------------------------------------------------------- sidebar widgets
\* df['Date'].min() / df['Date'].max() as st.date_input converts them to dates.
DefaultRange(d) ==
    <<Day(d[1].Date), Day(d[Len(d)].Date)>>

\* What st.date_input can return: any pair of days once the user has picked
\* both ends, or a tuple of another length (an unfinished or cleared pick),
\* whose elements are taken from the ends of the default range.
DateInputs(d) ==
    LET ends == {DefaultRange(d)[1], DefaultRange(d)[2]}
    IN (InputDays \X InputDays)
       \cup UNION {[1 .. n -> ends] : n \in (0 .. MaxRangeLen) \ {2}}

\* Mutant: only too-short tuples are rejected.
ValidRangeAtLeastTwo(dr) == Len(dr) >= 2

\* The complement of `if len(date_range) != 2` (error and st.stop()).
ValidRange(dr) == Len(dr) = 2

\* df['Category'].unique().tolist(): the labels in order of first appearance.
RECURSIVE Unique(_, _)
Unique(s, seen) ==
    IF s = <<>> THEN <<>>
    ELSE IF Head(s) \in seen THEN Unique(Tail(s), seen)
    ELSE <<Head(s)>> \o Unique(Tail(s), seen \cup {Head(s)})

all_categories(d) == Unique([i \in DOMAIN d |-> d[i].Category], {})

\* What st.multiselect can return: any selection of its options.
CategoryInputs(d) ==
    SUBSET {all_categories(d)[i] : i \in DOMAIN all_categories(d)}

\* Mutant: an empty selection means "no filter".
FallbackAll(d, sel) ==
    IF sel = {} THEN {all_categories(d)[i] : i \in DOMAIN all_categories(d)}
    ELSE sel

\* `if not selected_categories: selected_categories = ["Boys"]`
Fallback(d, sel) == IF sel = {} THEN {"Boys"} ELSE sel

\* ------------------------------------------------------------ filter data
\* The boolean mask of lines 107-111, applied row by row in df order.
FilterData(d, start, end, sel) ==
    SelectSeq(d, LAMBDA r :
        /\ r.Date >= to_datetime(start)
        /\ r.Date <= to_datetime(end)
        /\ r.Category \in sel)

\* Mutant: the emptiness test is missing.
NeverEmpty(f) == FALSE

\* DataFrame.empty
IsEmpty(f) == Len(f) = 0

\* -------------------------------------------------------------- aggregator
\* Series.sum() of the 'Water Usage (Litres)' column.
RECURSIVE SumUsage(_)
SumUsage(f) == IF f = <<>> THEN 0 ELSE Head(f).Usage + SumUsage(Tail(f))

\* Ascending order of a set of integers (groupby sorts its keys).
RECURSIVE SortAsc(_)
SortAsc(S) ==
    IF S = {} THEN <<>>
    ELSE LET m == CHOOSE x \in S : \A y \in S : x <= y
         IN <<m>> \o SortAsc(S \ {m})

\* filtered_df.groupby('Date')['Water Usage (Litres)'].sum(): one entry per
\* distinct timestamp, keys ascending.
GroupByDateSum(f) ==
    LET keys == SortAsc({f[i].Date : i \in DOMAIN f})
    IN [k \in DOMAIN keys |->
          [Date |-> keys[k],
           Usage |-> SumUsage(SelectSeq(f, LAMBDA r : r.Date = keys[k]))]]

\* Position of a label in lexicographic order, the order groupby sorts in.
CategoryRank(c) == CHOOSE i \in DOMAIN categories : categories[i] = c

\* Mutant: the last group is lost.
GroupByCategorySumDropLast(f) ==
    LET ranks == SortAsc({CategoryRank(f[i].Category) : i \in DOMAIN f})
    IN [k \in 1 .. (Len(ranks) - 1) |->
          [Category |-> categories[ranks[k]],
           Usage |-> SumUsage(SelectSeq(f,
                        LAMBDA r : r.Category = categories[ranks[k]]))]]

\* filtered_df.groupby('Category')['Water Usage (Litres)'].sum().reset_index()
GroupByCategorySum(f) ==
    LET ranks == SortAsc({CategoryRank(f[i].Category) : i \in DOMAIN f})
    IN [k \in DOMAIN ranks |->
          [Category |-> categories[ranks[k]],
           Usage |-> SumUsage(SelectSeq(f,
                        LAMBDA r : r.Category = categories[ranks[k]]))]]

\* Mutant: divides by the length of the generated window.
MeanOverWindow(s) == [num |-> SumUsage(s), den |-> Periods]

\* Series.mean(): the sum over the count, kept as a fraction; 0/0 is NaN.
Mean(s) == [num |-> SumUsage(s), den |-> Len(s)]

\* Largest value of a non-empty series.
MaxUsage(s) == CHOOSE m \in {s[i].Usage : i \in DOMAIN s} :
                  \A i \in DOMAIN s : s[i].Usage <= m

\* Mutant: the last label of the maximum.
IdxMaxLast(s) ==
    IF s = <<>> THEN None
    ELSE Some(s[CHOOSE i \in DOMAIN s :
                  /\ s[i].Usage = MaxUsage(s)
                  /\ \A j \in DOMAIN s : j > i => s[j].Usage < MaxUsage(s)].Date)

\* Series.idxmax(): the label of the first occurrence of the maximum.  On an
\* empty series pandas raises ValueError: None.
IdxMax(s) ==
    IF s = <<>> THEN None
    ELSE Some(s[CHOOSE i \in DOMAIN s :
                  /\ s[i].Usage = MaxUsage(s)
                  /\ \A j \in DOMAIN s : j < i => s[j].Usage < MaxUsage(s)].Date)

\* f"{x:.0f}" of the fraction num/den: nearest integer, halves to even.
Format0f(num, den) ==
    LET q == num \div den
        r == num % den
    IN IF 2 * r < den THEN q
       ELSE IF 2 * r > den THEN q + 1
       ELSE IF q % 2 = 0 THEN q ELSE q + 1

\* The reorderings of the rows of s.
Reorderings(s) ==
    LET n == Len(s)
        perms == {p \in [1 .. n -> 1 .. n] : \A i, j \in 1 .. n : i # j => p[i] # p[j]}
    IN {[i \in 1 .. n |-> s[p[i]]] : p \in perms}

\* Mutant: ascending=False.
SortValuesDescending(s) ==
    {o \in Reorderings(s) : \A i \in 1 .. (Len(o) - 1) : o[i].Usage >= o[i + 1].Usage}

\* sort_values(by='Water Usage (Litres)', ascending=True) with the default
\* sort kind, which is not stable: every ascending order of the rows is a
\* possible result.
SortValues(s) ==
    {o \in Reorderings(s) : \A i \in 1 .. (Len(o) - 1) : o[i].Usage <= o[i + 1].Usage}

\* ------------------------------------------------------------------ state
VARIABLES
    now,                  \* what datetime.today() returns in this process
    cache,                \* the st.cache_data entry of generate_data
    status,               \* "rerun" | "stopped" | "done" | "raised"
    generated,            \* did this pass run the body of generate_data
    df,                   \* script variables of the current pass ...
    date_range,
    start_date,
    end_date,
    multiselect,          \* what st.sidebar.multiselect returned
    selected_categories,  \* ... after the fallback of lines 102-104
    filtered_df,
    total_usage,
    avg_daily,
    peak_day,
    category_usage,
    leaderboard,
    kpi,                  \* the three st.metric values shown
    rendered              \* messages and elements the pass put on the page

pass == <<generated, df, date_range, start_date, end_date, multiselect,
          selected_categories, filtered_df, total_usage, avg_daily, peak_day,
          category_usage, leaderboard, kpi, rendered>>

vars == <<now, cache, status, pass>>

\* The draws np.random.randint hands to one call of generate_data: a cache
\* hit does not reach the generator.
Draws(cached) ==
    IF cached # None THEN {[k \in 1 .. Periods * Len(categories) |-> UsageLow]}
    ELSE [1 .. Periods * Len(categories) -> UsageChoices]

\* The metrics of the empty branch: "0 Litres", "0 Litres", "N/A".
NA == None
EmptyKpi == [total |-> 0, avg |-> 0, peak |-> NA]

\* A fresh process: nothing cached, the script about to run for the first
\* time, at some time of day.
Init ==
    /\ now \in {to_datetime(Today) + t : t \in StartTimes}
    /\ cache = None
    /\ status = "rerun"
    /\ generated = FALSE
    /\ df = None
    /\ date_range = None
    /\ start_date = None
    /\ end_date = None
    /\ multiselect = None
    /\ selected_categories = None
    /\ filtered_df = None
    /\ total_usage = None
    /\ avg_daily = None
    /\ peak_day = None
    /\ category_usage = None
    /\ leaderboard = None
    /\ kpi = None
    /\ rendered = {}

\* A widget changes: Streamlit drops the namespace and the elements of the
\* previous pass and schedules the script again.
Interact ==
    /\ status # "rerun"
    /\ status' = "rerun"
    /\ generated' = FALSE
    /\ df' = None
    /\ date_range' = None
    /\ start_date' = None
    /\ end_date' = None
    /\ multiselect' = None
    /\ selected_categories' = None
    /\ filtered_df' = None
    /\ total_usage' = None
    /\ avg_daily' = None
    /\ peak_day' = None
    /\ category_usage' = None
    /\ leaderboard' = None
    /\ kpi' = None
    /\ rendered' = {}
    /\ UNCHANGED <<now, cache>>

\* A pass that ends at st.stop() (lines 82-93).
RunStopped ==
    /\ status = "rerun"
    /\ \E usage \in Draws(cache) :
         LET d == generate_data(cache, now, usage)
         IN /\ generated' = (cache = None)
            /\ cache' = Some(d)
            /\ df' = Some(d)
            /\ \E dr \in DateInputs(d) :
                 /\ ~ValidRange(dr)
                 /\ date_range' = Some(dr)
    /\ rendered' = {"error"}
    /\ status' = "stopped"
    /\ UNCHANGED <<now, start_date, end_date, multiselect, selected_categories,
                   filtered_df, total_usage, avg_daily, peak_day,
                   category_usage, leaderboard, kpi>>

\* A pass that runs to the end of the script (lines 82-207).
RunFiltered ==
    /\ status = "rerun"
    /\ \E usage \in Draws(cache) :
         LET d == generate_data(cache, now, usage)
         IN /\ generated' = (cache = None)
            /\ cache' = Some(d)
            /\ df' = Some(d)
            /\ \E dr \in DateInputs(d), sel \in CategoryInputs(d) :
                 LET chosen == Fallback(d, sel)
                     f == FilterData(d, dr[1], dr[2], chosen)
                     warning == IF sel = {} THEN {"warning"} ELSE {}
                     total == SumUsage(f)
                     avg == Mean(GroupByDateSum(f))
                     peak == IdxMax(GroupByDateSum(f))
                     byCategory == GroupByCategorySum(f)
                 IN /\ ValidRange(dr)
                    /\ date_range' = Some(dr)
                    /\ start_date' = Some(dr[1])
                    /\ end_date' = Some(dr[2])
                    /\ multiselect' = Some(sel)
                    /\ selected_categories' = Some(chosen)
                    /\ filtered_df' = Some(f)
                    /\ IF IsEmpty(f)
                       THEN /\ UNCHANGED <<total_usage, avg_daily, peak_day,
                                           category_usage, leaderboard>>
                            /\ kpi' = Some(EmptyKpi)
                            /\ rendered' = warning \cup
                                 {"info", "metrics", "no_data",
                                  "no_category_data", "leaderboard_unavailable"}
                            /\ status' = "done"
                       ELSE /\ total_usage' = Some(total)
                            /\ avg_daily' = Some(avg)
                            /\ peak_day' = peak
                            /\ IF peak = None
                               THEN \* idxmax raised: the pass ends at line 124
                                    /\ UNCHANGED <<category_usage, leaderboard, kpi>>
                                    /\ rendered' = warning \cup {"exception"}
                                    /\ status' = "raised"
                               ELSE /\ kpi' = Some([total |-> Format0f(total, 1),
                                                    avg |-> Format0f(avg.num, avg.den),
                                                    peak |-> Some(Day(peak[1]))])
                                    /\ category_usage' = Some(byCategory)
                                    /\ leaderboard' \in
                                         {Some(o) : o \in SortValues(byCategory)}
                                    /\ rendered' = warning \cup
                                         {"metrics", "line_chart", "pie_chart",
                                          "bar_chart", "leaderboard"}
                                    /\ status' = "done"
    /\ UNCHANGED now

Next == Interact \/ RunStopped \/ RunFiltered

Spec == Init /\ [][Next]_vars

\* ---------------------------------------------------------------- claims
Rows(f) == {f[i] : i \in DOMAIN f}
Days(f) == {Day(f[i].Date) : i \in DOMAIN f}
DayTotal(f, day) == SumUsage(SelectSeq(f, LAMBDA r : Day(r.Date) = day))
CategoryTotal(f, c) == SumUsage(SelectSeq(f, LAMBDA r : r.Category = c))
Filtered == status = "done" /\ Len(filtered_df[1]) > 0

\* C1: with a non-empty selection, the filtered set is exactly the records
\* whose calendar day lies in [start, end], both ends included, and whose
\* category is selected.
C1_FilterExact ==
    (status = "done" /\ multiselect[1] # {}) =>
        Rows(filtered_df[1]) =
            {r \in Rows(df[1]) :
                /\ start_date[1] <= Day(r.Date)
                /\ Day(r.Date) <= end_date[1]
                /\ r.Category \in multiselect[1]}

\* C2: a pass with no category selected warns and produces the filtered set,
\* metrics, category totals and leaderboard of a pass with {"Boys"} selected
\* over the same date range.
C2_EmptySelectionIsBoys ==
    (status = "done" /\ multiselect = Some({})) =>
        LET f == FilterData(df[1], start_date[1], end_date[1], {"Boys"})
        IN /\ "warning" \in rendered
           /\ selected_categories = Some({"Boys"})
           /\ filtered_df = Some(f)
           /\ \A r \in Rows(filtered_df[1]) : r.Category = "Boys"
           /\ IF f = <<>>
              THEN /\ kpi = Some([total |-> 0, avg |-> 0, peak |-> NA])
                   /\ category_usage = None
                   /\ leaderboard = None
              ELSE /\ total_usage = Some(SumUsage(f))
                   /\ avg_daily = Some(Mean(GroupByDateSum(f)))
                   /\ peak_day = IdxMax(GroupByDateSum(f))
                   /\ kpi[1].total = SumUsage(f)
                   /\ category_usage = Some(<<[Category |-> "Boys", Usage |-> SumUsage(f)]>>)
                   /\ leaderboard = category_usage

C2_Witness ==
    /\ status = "done"
    /\ multiselect = Some({})
    /\ Len(filtered_df[1]) > 0
    /\ Len(filtered_df[1]) < Cardinality({r \in Rows(df[1]) :
           start_date[1] <= Day(r.Date) /\ Day(r.Date) <= end_date[1]})

\* C3: a date range that does not have exactly two values ends the pass with
\* a validation error before the filter: nothing is filtered, aggregated or
\* rendered and no range is substituted.
C3_InvalidRangeHalts ==
    (date_range # None /\ Len(date_range[1]) # 2) =>
        /\ status = "stopped"
        /\ rendered = {"error"}
        /\ start_date = None /\ end_date = None
        /\ multiselect = None /\ selected_categories = None
        /\ filtered_df = None
        /\ total_usage = None /\ avg_daily = None /\ peak_day = None
        /\ category_usage = None /\ leaderboard = None /\ kpi = None

C3_Witness ==
    status = "stopped" /\ date_range # None /\ Len(date_range[1]) = 1

\* C4: an empty filtered set completes the pass without an exception, shows
\* total 0, average 0, peak "N/A" and no leaderboard, and none of the
\* aggregations is evaluated.
C4_EmptyDefaults ==
    (status # "rerun" /\ filtered_df # None /\ Len(filtered_df[1]) = 0) =>
        /\ status = "done"
        /\ kpi = Some([total |-> 0, avg |-> 0, peak |-> <<>>])
        /\ total_usage = None /\ avg_daily = None /\ peak_day = None
        /\ category_usage = None /\ leaderboard = None
        /\ "leaderboard_unavailable" \in rendered
        /\ rendered \cap {"exception", "leaderboard", "line_chart",
                          "pie_chart", "bar_chart"} = {}

C4_Witness ==
    /\ status = "done"
    /\ filtered_df = Some(<<>>)
    /\ start_date[1] > end_date[1]

\* C5: the total usage equals the sum of the category totals (charts and
\* leaderboard alike) and the sum of the per-day totals.
C5_TotalsConsistent ==
    status = "done" =>
        LET f == filtered_df[1]
            byCategory == IF category_usage = None THEN <<>> ELSE category_usage[1]
            board == IF leaderboard = None THEN <<>> ELSE leaderboard[1]
        IN /\ kpi[1].total = SumUsage(byCategory)
           /\ kpi[1].total = SumUsage(board)
           /\ kpi[1].total = SumUsage(GroupByDateSum(f))
           /\ f # <<>> => total_usage = Some(kpi[1].total)

C5_Witness ==
    /\ Filtered
    /\ Len(category_usage[1]) >= 2
    /\ Cardinality(Days(filtered_df[1])) >= 2

\* C6: the peak day is a day of the filtered set with the largest per-day
\* total, and the earliest such day.
C6_PeakDayEarliestMax ==
    Filtered =>
        LET f == filtered_df[1]
            p == Day(peak_day[1])
        IN /\ peak_day # None
           /\ p \in Days(f)
           /\ \A d \in Days(f) : DayTotal(f, d) <= DayTotal(f, p)
           /\ \A d \in Days(f) : DayTotal(f, d) = DayTotal(f, p) => p <= d
           /\ kpi[1].peak = Some(p)

C6_Witness ==
    /\ Filtered
    /\ \E d \in Days(filtered_df[1]) :
         /\ d # Day(peak_day[1])
         /\ DayTotal(filtered_df[1], d) = DayTotal(filtered_df[1], Day(peak_day[1]))

\* C7: for a non-empty filtered set the average daily usage is the total
\* usage over the number of distinct days present in the set, and the value
\* shown is that quotient to the nearest integer; for an empty one 0 is shown.
C7_AverageOverPresentDays ==
    status = "done" =>
        IF filtered_df[1] = <<>> THEN kpi[1].avg = 0
        ELSE LET n == Cardinality(Days(filtered_df[1]))
                 shown == kpi[1].avg
             IN /\ avg_daily[1].den > 0
                /\ avg_daily[1].num * n = total_usage[1] * avg_daily[1].den
                /\ 2 * (shown * n - total_usage[1]) <= n
                /\ 2 * (total_usage[1] - shown * n) <= n

C7_Witness ==
    /\ Filtered
    /\ Cardinality(Days(filtered_df[1])) < Cardinality(Days(df[1]))
    /\ start_date[1] < end_date[1]

\* C8: the leaderboard has exactly one entry per category present in the
\* filtered set, carrying that category's total (the entries of the category
\* totals), in ascending order of total.
C8_LeaderboardAscending ==
    Filtered =>
        LET f == filtered_df[1]
            board == leaderboard[1]
        IN /\ leaderboard # None
           /\ Len(board) = Cardinality({r.Category : r \in Rows(f)})
           /\ Rows(board) = {[Category |-> c, Usage |-> CategoryTotal(f, c)] :
                               c \in {r.Category : r \in Rows(f)}}
           /\ Rows(board) = Rows(category_usage[1])
           /\ \A i \in 1 .. (Len(board) - 1) : board[i].Usage <= board[i + 1].Usage

C8_Witness ==
    /\ Filtered
    /\ Len(leaderboard[1]) = Len(categories)
    /\ leaderboard[1] # category_usage[1]

\* C9: the generated dataset covers exactly the Periods consecutive days
\* ending today, with exactly one record per day and category, in date-major,
\* category-minor order.
C9_DenseGrid ==
    cache # None =>
        LET d == cache[1]
            nc == Len(categories)
            window == (Day(now) - Periods + 1) .. Day(now)
        IN /\ Len(d) = Periods * nc
           /\ Days(d) = window
           /\ \A day \in window : \A j \in 1 .. nc :
                Cardinality({k \in DOMAIN d :
                    Day(d[k].Date) = day /\ d[k].Category = categories[j]}) = 1
           /\ \A i \in 1 .. Periods : \A j \in 1 .. nc :
                /\ Day(d[(i - 1) * nc + j].Date) = Day(now) - Periods + i
                /\ d[(i - 1) * nc + j].Category = categories[j]

C9_Witness ==
    cache # None /\ generated /\ now % TicksPerDay # 0

\* C10: once generated, the dataset is never generated again nor changed, and
\* every pass reads exactly the cached dataset.
C10_GeneratedOnce ==
    [][/\ cache # None => (cache' = cache /\ ~generated')
       /\ df' # None => df' = cache']_vars

C10_Witness ==
    /\ status \in {"done", "stopped"}
    /\ ~generated
    /\ df = cache
    /\ df # None

====
